---- MODULE Spec2Model ----
(***************************************************************************)
(* Quiz progression of the MCQ backend: the four widget action handlers of *)
(* StarterAppServer, the three agent tools that create / fetch / show      *)
(* questions, the fallback widget document and the in-memory thread store. *)
(*                                                                         *)
(* Python values are represented as follows.  A dict is a record whose     *)
(* DOMAIN is the set of keys present, so d.get(k, default) is Get(d,k,..). *)
(* An optional string that is None is the string None below, which no      *)
(* input contains.  An f-string is the tuple of its parts.                 *)
(***************************************************************************)
EXTENDS Integers, Sequences, FiniteSets, TLC

\* ------------------------------------------------------------------------
\* Bounds of the model
\* ------------------------------------------------------------------------
MaxBelow == 2       \* a client payload carries an "index" from -MaxBelow ..
MaxIndex == 3       \* .. up to MaxIndex
MaxIds == 3         \* item ids handed out by generate_item_id
MaxShown == 1       \* most recent widget items a client can act on
MaxLimit == 2        \* items asked for in one page

\* ------------------------------------------------------------------------
\* Python helpers
\* ------------------------------------------------------------------------
None == "<None>"

TruthyNotNone(s) == s # None

Truthy(s) == s # None /\ s # ""

\* str(v) inside an f-string
Str(v) == IF v = None THEN "None" ELSE v

\* d.get(key, default)
Get(d, key, default) == IF key \in DOMAIN d THEN d[key] ELSE default

\* seq[:k] for any integer k (a negative k counts from the end)
SliceTo(seq, k) ==
    LET n == Len(seq)
        stop == IF k >= 0 THEN (IF k < n THEN k ELSE n)
                ELSE (IF n + k > 0 THEN n + k ELSE 0)
    IN SubSeq(seq, 1, stop)

\* seq[i] for a 0-based Python index i; negative i counts from the end
InRange(seq, i) == -Len(seq) <= i /\ i < Len(seq)
Item(seq, i) == IF i >= 0 THEN seq[i + 1] ELSE seq[Len(seq) + i + 1]

\* ------------------------------------------------------------------------
\* data/mcq_store.py
\* ------------------------------------------------------------------------
Opt(label, value) == [label |-> label, value |-> value, disabled |-> None]

DefaultQuestions ==
    << [id |-> "q1",
        prompt |-> "What problem is identified in the brief?",
        options |-> << Opt("AI tools lack a structured, persistent learning flow.", "a"),
                       Opt("AI models cannot read PDFs.", "b"),
                       Opt("Online courses are too long.", "c"),
                       Opt("PDF uploads are insecure.", "d") >>,
        correct_answer |-> "a",
        hint |-> "Focus on the need for structure over raw capabilities.",
        explanation |-> "The brief cites a missing structured, persistent pedagogy as the core issue."],
       [id |-> "q2",
        prompt |-> "What is the capital of France?",
        options |-> << Opt("London", "a"), Opt("Paris", "b"),
                       Opt("Berlin", "c"), Opt("Madrid", "d") >>,
        correct_answer |-> "b",
        hint |-> "It's known as the City of Light",
        explanation |-> "Paris is the capital and largest city of France."] >>

\* the "not found" result of a lookup (Python None)
NoQuestion == [missing |-> TRUE]

\* first question of the list with the given id
RECURSIVE FindById(_, _)
FindById(questions, question_id) ==
    IF questions = <<>> THEN NoQuestion
    ELSE IF Head(questions).id = question_id THEN Head(questions)
    ELSE FindById(Tail(questions), question_id)

GetQuestionOrFirst(questions, question_id) ==
    IF FindById(questions, question_id) = NoQuestion /\ questions # <<>>
    THEN Head(questions)
    ELSE FindById(questions, question_id)

get_question(questions, question_id) == FindById(questions, question_id)

\* limit None is passed as 0: "if limit:" treats both alike
get_questions(questions, limit) ==
    IF limit # 0 THEN SliceTo(questions, limit) ELSE questions

\* ------------------------------------------------------------------------
\* widgets/mcq_widget.py
\* ------------------------------------------------------------------------
ActionPayload(data) == [questionId |-> data.questionId, index |-> data.index]

\* the fallback structure with the choices of its buttons left open
FallbackVariant(data, is_last, retry, payload) ==
    [type |-> "Card",
     size |-> "md",
     children |-> <<
        [type |-> "Row",
         children |-> <<
            [type |-> "Caption",
             value |-> <<"Question ", data.index, " of ", data.total>>],
            [type |-> "Spacer"],
            [type |-> "Badge", label |-> "MCQ", color |-> "info"] >>],
        [type |-> "Title", value |-> data.prompt, size |-> "sm"],
        [type |-> "Form",
         onSubmitAction |-> [type |-> "mcq.submit", payload |-> payload],
         children |-> <<
            [type |-> "Col",
             gap |-> 3,
             children |-> <<
                [type |-> "RadioGroup",
                 name |-> "answer",
                 options |-> data.options,
                 defaultValue |-> data.selected,
                 direction |-> "col",
                 required |-> TRUE,
                 disabled |-> (data.status = "correct")],
                [type |-> "Row",
                 children |-> <<
                    [type |-> "Button",
                     submit |-> TRUE,
                     label |-> IF retry THEN "Try again" ELSE "Submit answer",
                     style |-> "primary",
                     disabled |-> (data.status = "correct")],
                    [type |-> "Button",
                     label |-> "Clear",
                     variant |-> "outline",
                     onClickAction |-> [type |-> "mcq.clear", payload |-> payload]],
                    [type |-> "Spacer"],
                    [type |-> "Button",
                     label |-> IF is_last THEN "Finish" ELSE "Next",
                     iconEnd |-> "chevron-right",
                     onClickAction |-> [type |-> IF is_last
                                                 THEN "mcq.finish" ELSE "mcq.next",
                                        payload |-> payload],
                     disabled |-> (data.status # "correct")] >>] >>] >>] >>]

FallbackLastOrBeyond(data) ==
    FallbackVariant(data, data.index >= data.total, data.status = "incorrect",
                    ActionPayload(data))

FallbackRetryUnlessIdle(data) ==
    FallbackVariant(data, data.index = data.total, data.status # "idle",
                    ActionPayload(data))

FallbackPayloadZeroBased(data) ==
    FallbackVariant(data, data.index = data.total, data.status = "incorrect",
                    [questionId |-> data.questionId, index |-> data.index - 1])

_build_fallback_widget(data) ==
    [type |-> "Card",
     size |-> "md",
     children |-> <<
        [type |-> "Row",
         children |-> <<
            [type |-> "Caption",
             value |-> <<"Question ", data.index, " of ", data.total>>],
            [type |-> "Spacer"],
            [type |-> "Badge", label |-> "MCQ", color |-> "info"] >>],
        [type |-> "Title", value |-> data.prompt, size |-> "sm"],
        [type |-> "Form",
         onSubmitAction |-> [type |-> "mcq.submit", payload |-> ActionPayload(data)],
         children |-> <<
            [type |-> "Col",
             gap |-> 3,
             children |-> <<
                [type |-> "RadioGroup",
                 name |-> "answer",
                 options |-> data.options,
                 defaultValue |-> data.selected,
                 direction |-> "col",
                 required |-> TRUE,
                 disabled |-> (data.status = "correct")],
                [type |-> "Row",
                 children |-> <<
                    [type |-> "Button",
                     submit |-> TRUE,
                     label |-> IF data.status = "incorrect"
                               THEN "Try again" ELSE "Submit answer",
                     style |-> "primary",
                     disabled |-> (data.status = "correct")],
                    [type |-> "Button",
                     label |-> "Clear",
                     variant |-> "outline",
                     onClickAction |-> [type |-> "mcq.clear",
                                        payload |-> ActionPayload(data)]],
                    [type |-> "Spacer"],
                    [type |-> "Button",
                     label |-> IF data.index = data.total THEN "Finish" ELSE "Next",
                     iconEnd |-> "chevron-right",
                     onClickAction |-> [type |-> IF data.index = data.total
                                                 THEN "mcq.finish" ELSE "mcq.next",
                                        payload |-> ActionPayload(data)],
                     disabled |-> (data.status # "correct")] >>] >>] >>] >>]

\* the dict handed to the renderer; "feedback or {}" is the identity on dicts
widget_data(question_id, index, total, prompt, options, selected, status, feedback) ==
    [questionId |-> question_id, index |-> index, total |-> total,
     prompt |-> prompt, options |-> options, selected |-> selected,
     status |-> status, feedback |-> feedback]

BuildWidgetIdle(question_id, index, total, prompt, options, selected, status, feedback) ==
    _build_fallback_widget(
        widget_data(question_id, index, total, prompt, options, selected, "idle", feedback))

\* The template file "MCQ Card (copy).widget" is not part of the sources, so
\* _get_widget_template() finds no file and the fallback structure is built.
build_mcq_widget(question_id, index, total, prompt, options, selected, status, feedback) ==
    _build_fallback_widget(
        widget_data(question_id, index, total, prompt, options, selected, status, feedback))

\* What the template machinery gives one call of build_mcq_widget:
\*   file     "missing" (no path exists), "unreadable" (from_file raises on
\*            every path) or "loaded"
\*   built    the outcome of template.build(data=widget_data)
\*   rebuilt  the outcome of template.build(widget_data), tried when the
\*            first build returned None
\* An outcome is [kind |-> "raises"], [kind |-> "none"], [kind |-> "other"]
\* (neither a dict nor a widget root), [kind |-> "dict", value |-> d] or
\* [kind |-> "root", value |-> d], d being the dict model_dump returns.
Raises == [kind |-> "raises"]
ReturnsNone == [kind |-> "none"]
ReturnsOther == [kind |-> "other"]
ReturnsDict(d) == [kind |-> "dict", value |-> d]
ReturnsRoot(d) == [kind |-> "root", value |-> d]

Template(file, built, rebuilt) == [file |-> file, built |-> built, rebuilt |-> rebuilt]

BuildTrustingDicts(template, question_id, index, total, prompt, options, selected, status, feedback) ==
    LET data == widget_data(question_id, index, total, prompt, options,
                            selected, status, feedback)
        built_widget == IF template.built.kind = "none"
                        THEN template.rebuilt ELSE template.built
    IN IF template.file = "loaded" /\ built_widget.kind \in { "root", "dict" }
       THEN built_widget.value
       ELSE _build_fallback_widget(data)

\* build_mcq_widget with the template machinery as an input
BuildWithTemplate(template, question_id, index, total, prompt, options, selected, status, feedback) ==
    LET data == widget_data(question_id, index, total, prompt, options,
                            selected, status, feedback)
        fallback == _build_fallback_widget(data)
    IN IF template.file # "loaded" THEN fallback
       ELSE IF template.built.kind = "raises" THEN fallback
       ELSE LET built_widget == IF template.built.kind = "none"
                                THEN template.rebuilt ELSE template.built
            IN IF built_widget.kind = "raises" THEN fallback
               ELSE IF built_widget.kind = "none" THEN fallback
               ELSE IF built_widget.kind = "root" THEN built_widget.value
               ELSE IF built_widget.kind = "dict"
               THEN IF "type" \in DOMAIN built_widget.value
                    THEN built_widget.value ELSE fallback
               ELSE fallback

\* Readers of a widget document
DocCaption(doc) == doc.children[1].children[1].value
DocIndex(doc) == DocCaption(doc)[2]
DocTotal(doc) == DocCaption(doc)[4]
DocPrompt(doc) == doc.children[2].value
DocForm(doc) == doc.children[3]
DocRadio(doc) == DocForm(doc).children[1].children[1]
DocButtons(doc) == DocForm(doc).children[1].children[2].children
DocSubmitButton(doc) == DocButtons(doc)[1]
DocClearButton(doc) == DocButtons(doc)[2]
DocNextButton(doc) == DocButtons(doc)[4]
DocQuestionId(doc) == DocForm(doc).onSubmitAction.payload.questionId

\* ------------------------------------------------------------------------
\* memory_store.py
\* ------------------------------------------------------------------------
\* _threads is a dict of dicts: user id -> thread id -> _ThreadState
EmptyDict == <<>>

_get_user_id(context) ==
    IF Truthy(context.user_id) THEN context.user_id ELSE "anonymous"

\* returns the store after the lookup, which may have added the user's dict
_get_user_threads(T, user_id) ==
    IF user_id \in DOMAIN T THEN T ELSE (user_id :> EmptyDict) @@ T

ThreadMetadata(id, created_at, metadata) ==
    [id |-> id, created_at |-> created_at, metadata |-> metadata]

_ThreadState(thread, items) == [thread |-> thread, items |-> items]

\* model_copy(deep=True) of a value is the value
_coerce_thread_metadata(thread) == thread

HasThread(T, thread_id, context) ==
    LET user_id == _get_user_id(context)
    IN user_id \in DOMAIN T /\ thread_id \in DOMAIN T[user_id]

\* the metadata load_thread returns when it does not raise NotFoundError
load_thread(T, thread_id, context) ==
    _coerce_thread_metadata(T[_get_user_id(context)][thread_id].thread)

save_thread(T, thread, context) ==
    LET user_id == _get_user_id(context)
        T1 == _get_user_threads(T, user_id)
        metadata == _coerce_thread_metadata(thread)
        user_threads == T1[user_id]
    IN IF thread.id \in DOMAIN user_threads
       THEN [T1 EXCEPT ![user_id][thread.id].thread = metadata]
       ELSE [T1 EXCEPT ![user_id] =
                (thread.id :> _ThreadState(metadata, <<>>)) @@ user_threads]

\* the store after _thread_state(thread_id, context)
_thread_state(T, thread_id, context, now) ==
    LET user_id == _get_user_id(context)
        T1 == _get_user_threads(T, user_id)
        user_threads == T1[user_id]
    IN IF thread_id \in DOMAIN user_threads
       THEN T1
       ELSE [T1 EXCEPT ![user_id] =
                (thread_id :> _ThreadState(ThreadMetadata(thread_id, now, EmptyDict), <<>>))
                @@ user_threads]

_items(T, thread_id, context) == T[_get_user_id(context)][thread_id].items

AddThreadItemLost(T, thread_id, item, context, now) ==
    _thread_state(T, thread_id, context, now)

add_thread_item(T, thread_id, item, context, now) ==
    LET T1 == _thread_state(T, thread_id, context, now)
    IN [T1 EXCEPT ![_get_user_id(context)][thread_id].items = Append(@, item)]

\* the dict without a key: dict.pop(key, None)
Without(d, key) == [k \in DOMAIN d \ { key } |-> d[k]]

DeleteThreadOfEveryUser(T, thread_id, context) ==
    LET T1 == _get_user_threads(T, _get_user_id(context))
    IN [user_id \in DOMAIN T1 |-> Without(T1[user_id], thread_id)]

delete_thread(T, thread_id, context) ==
    LET user_id == _get_user_id(context)
        T1 == _get_user_threads(T, user_id)
    IN [T1 EXCEPT ![user_id] = Without(@, thread_id)]

\* list.sort(key=created_at, reverse=desc): a stable sort, and reverse
\* keeps the elements of equal key in their original order
InsertByCreatedAt(sorted, item, desc) ==
    LET k == Cardinality({ i \in 1..Len(sorted) :
                             IF desc THEN sorted[i].created_at >= item.created_at
                             ELSE sorted[i].created_at <= item.created_at })
    IN SubSeq(sorted, 1, k) \o << item >> \o SubSeq(sorted, k + 1, Len(sorted))

RECURSIVE SortByCreatedAt(_, _)
SortByCreatedAt(seq, desc) ==
    IF seq = <<>> THEN <<>>
    ELSE InsertByCreatedAt(SortByCreatedAt(SubSeq(seq, 1, Len(seq) - 1), desc),
                           seq[Len(seq)], desc)

\* seq[a:b] for 0 <= a
Slice(seq, a, b) ==
    SubSeq(seq, a + 1, IF b < Len(seq) THEN b ELSE Len(seq))

\* index_map.get(after, -1): the last position that holds the id, 0-based
IndexOf(seq, id) ==
    LET found == { i \in 1..Len(seq) : seq[i].id = id }
    IN IF found = {} THEN -1 ELSE (CHOOSE i \in found : \A j \in found : j <= i) - 1

Page(data, has_more, after) == [data |-> data, has_more |-> has_more, after |-> after]

PageWithoutLookahead(sorted, after, limit) ==
    LET start == IF Truthy(after) THEN IndexOf(sorted, after) + 1 ELSE 0
        slice == Slice(sorted, start, start + limit)
        has_more == Len(slice) >= limit
    IN Page(slice, has_more,
            IF has_more /\ slice # <<>> THEN slice[Len(slice)].id ELSE None)

\* the page cut out of a sorted list: one item more than limit is sliced to
\* learn whether anything follows
PageAfter(sorted, after, limit) ==
    LET start == IF Truthy(after) THEN IndexOf(sorted, after) + 1 ELSE 0
        slice_items == Slice(sorted, start, start + limit + 1)
        has_more == Len(slice_items) > limit
        page_items == Slice(slice_items, 0, limit)
    IN Page(page_items, has_more,
            IF has_more /\ page_items # <<>>
            THEN page_items[Len(page_items)].id ELSE None)

\* the page load_thread_items returns; the store is then
\* _thread_state(T, thread_id, context, now)
load_thread_items(T, thread_id, after, limit, order, context, now) ==
    PageAfter(SortByCreatedAt(_items(_thread_state(T, thread_id, context, now),
                                     thread_id, context),
                              order = "desc"),
              after, limit)

\* the page load_threads returns; the store is then
\* _get_user_threads(T, _get_user_id(context))
load_threads(T, limit, after, order, context) ==
    LET user_threads == _get_user_threads(T, _get_user_id(context))[_get_user_id(context)]
        ids == DOMAIN user_threads
        \* dict order is insertion order; any order of the ids is taken here
        listed == CHOOSE seq \in [1..Cardinality(ids) -> ids] :
                      { seq[i] : i \in 1..Cardinality(ids) } = ids
        metadatas == [i \in 1..Cardinality(ids) |->
                         _coerce_thread_metadata(user_threads[listed[i]].thread)]
    IN PageAfter(SortByCreatedAt(metadatas, order = "desc"), after, limit)

save_item(T, thread_id, item, context, now) ==
    LET T1 == _thread_state(T, thread_id, context, now)
        items == _items(T1, thread_id, context)
        held == { i \in 1..Len(items) : items[i].id = item.id }
        idx == CHOOSE i \in held : \A j \in held : i <= j
    IN IF held # {}
       THEN [T1 EXCEPT ![_get_user_id(context)][thread_id].items[idx] = item]
       ELSE [T1 EXCEPT ![_get_user_id(context)][thread_id].items = Append(@, item)]

NoItem == [missing |-> TRUE]

\* the item load_item returns, NoItem when it raises NotFoundError; the
\* store is then _thread_state(T, thread_id, context, now)
load_item(T, thread_id, item_id, context, now) ==
    LET items == _items(_thread_state(T, thread_id, context, now), thread_id, context)
        held == { i \in 1..Len(items) : items[i].id = item_id }
    IN IF held = {} THEN NoItem
       ELSE items[CHOOSE i \in held : \A j \in held : i <= j]

delete_thread_item(T, thread_id, item_id, context, now) ==
    LET T1 == _thread_state(T, thread_id, context, now)
        items == _items(T1, thread_id, context)
    IN [T1 EXCEPT ![_get_user_id(context)][thread_id].items =
           SelectSeq(items, LAMBDA item : item.id # item_id)]

\* Store.generate_item_id: an identifier no earlier call returned; n counts
\* the calls made so far
generate_item_id(item_type, n) == <<item_type, n + 1>>

\* ------------------------------------------------------------------------
\* server.py: the widget action handlers
\* ------------------------------------------------------------------------
NoSender == [missing |-> TRUE]

WidgetItem(id, widget) == [id |-> id, widget |-> widget]

\* "not sender or not sender.widget" is false
HasWidget(sender) == sender # NoSender /\ DOMAIN sender.widget # {}

HasQuiz(thread) ==
    DOMAIN thread.metadata # {} /\ "current_quiz" \in DOMAIN thread.metadata

ThreadItemUpdated(item_id, widget) ==
    [type |-> "thread.item.updated",
     item_id |-> item_id,
     update |-> [type |-> "widget.root.updated", widget |-> widget]]

ThreadItemDoneEvent(item) == [type |-> "thread.item.done", item |-> item]

AssistantMessageItem(thread_id, id, created_at, text) ==
    [type |-> "assistant_message", thread_id |-> thread_id, id |-> id,
     created_at |-> created_at, content |-> << [text |-> text] >>]

HiddenContextItem(id, thread_id, created_at, content) ==
    [type |-> "hidden_context_item", id |-> id, thread_id |-> thread_id,
     created_at |-> created_at, content |-> content]

ClosingText == "Great job completing the quiz! Would you like to try another one?"

NoData == [missing |-> TRUE]

\* What one handler call does: the events it yields, the items it adds to
\* the thread, the number of ids it takes, the dict it handed to the widget
\* builder and the exception it ends with ("" when it returns).
Result(events, saved, ids, data, raised) ==
    [events |-> events, saved |-> saved, ids |-> ids, data |-> data, raised |-> raised]

Nothing == Result(<<>>, <<>>, 0, NoData, "")

FinishWithAudit(thread, n, now) ==
    Result(<< ThreadItemDoneEvent(
                AssistantMessageItem(thread.id, generate_item_id("message", n),
                                     now, ClosingText)) >>,
           << HiddenContextItem(generate_item_id("message", n + 1), thread.id, now,
                                << "User finished the quiz." >>) >>,
           2, NoData, "")

_handle_finish_action(thread, n, now) ==
    Result(<< ThreadItemDoneEvent(
                AssistantMessageItem(thread.id, generate_item_id("message", n),
                                     now, ClosingText)) >>,
           <<>>, 1, NoData, "")

LookupStoreFirst(thread, mcq, question_id) ==
    LET quiz == IF HasQuiz(thread) THEN thread.metadata.current_quiz ELSE <<>>
        found == get_question(mcq, question_id)
    IN IF found # NoQuestion
       THEN [question |-> found, total |-> Len(mcq)]
       ELSE [question |-> FindById(quiz, question_id), total |-> Len(quiz)]

\* the question and total found by the two-tier lookup of submit and clear
Lookup(thread, mcq, question_id) ==
    LET quiz == IF HasQuiz(thread) THEN thread.metadata.current_quiz ELSE <<>>
        found == FindById(quiz, question_id)
    IN IF found # NoQuestion
       THEN [question |-> found, total |-> Len(quiz)]
       ELSE [question |-> get_question(mcq, question_id), total |-> Len(mcq)]

\* a letter in lower case, for a comparison that ignores case
Lower(v) == IF v = "A" THEN "a" ELSE IF v = "B" THEN "b" ELSE IF v = "C" THEN "c" ELSE v

IsCorrectAnyCase(correct_answer, answer) == Lower(correct_answer) = Lower(answer)

IsCorrect(correct_answer, answer) == correct_answer = answer

SubmitResultBoth(question, is_correct) ==
    [correct |-> is_correct,
     hint |-> Get(question, "hint", None),
     explanation |-> Get(question, "explanation", None)]

\* the result dict of a submission: the hint or the explanation
SubmitResult(question, is_correct) ==
    [correct |-> is_correct,
     hint |-> IF ~is_correct THEN Get(question, "hint", None) ELSE None,
     explanation |-> IF is_correct THEN Get(question, "explanation", None) ELSE None]

CurrentIndexReset(payload) == 1

\* action.payload.get("index", 1) if action.payload else 1
CurrentIndex(payload) == Get(payload, "index", 1)

_handle_submit_action(thread, payload, sender, mcq, n, now) ==
    LET question_id == Get(payload, "questionId", None)
        answer == Get(payload, "answer", None)
    IN IF ~Truthy(question_id) \/ ~HasWidget(sender) THEN Nothing
       ELSE LET found == Lookup(thread, mcq, question_id)
                question == found.question
                total == found.total
            IN IF question = NoQuestion THEN Nothing
               ELSE LET correct_answer == Get(question, "correct_answer", "")
                        is_correct == IsCorrect(correct_answer, answer)
                        status == IF is_correct THEN "correct" ELSE "incorrect"
                        result == SubmitResult(question, is_correct)
                        hidden == HiddenContextItem(
                                    generate_item_id("message", n), thread.id, now,
                                    << "User submitted answer '", Str(answer),
                                       "' for question ", question_id,
                                       ". Result: ", status, "." >>)
                        current_index == CurrentIndex(payload)
                        selected == IF Truthy(answer) THEN answer ELSE ""
                        feedback == [hint |-> result.hint,
                                     explanation |-> result.explanation]
                    IN Result(
                         << ThreadItemUpdated(sender.id,
                                build_mcq_widget(question_id, current_index, total,
                                                 question.prompt, question.options,
                                                 selected, status, feedback)) >>,
                         << hidden >>, 1,
                         widget_data(question_id, current_index, total,
                                     question.prompt, question.options,
                                     selected, status, feedback),
                         "")

ClearKeepingSelection(thread, payload, sender, mcq) ==
    IF ~HasWidget(sender) THEN Nothing
    ELSE LET question_id == Get(payload, "questionId", None)
             found == Lookup(thread, mcq, question_id)
             selected == DocRadio(sender.widget).defaultValue
         IN IF ~Truthy(question_id) \/ found.question = NoQuestion THEN Nothing
            ELSE Result(
                   << ThreadItemUpdated(sender.id,
                         build_mcq_widget(question_id, CurrentIndex(payload),
                                          found.total, found.question.prompt,
                                          found.question.options, selected, "idle",
                                          EmptyDict)) >>,
                   <<>>, 0,
                   widget_data(question_id, CurrentIndex(payload), found.total,
                               found.question.prompt, found.question.options,
                               selected, "idle", EmptyDict),
                   "")

_handle_clear_action(thread, payload, sender, mcq) ==
    IF ~HasWidget(sender) THEN Nothing
    ELSE LET question_id == Get(payload, "questionId", None)
         IN IF ~Truthy(question_id) THEN Nothing
            ELSE LET found == Lookup(thread, mcq, question_id)
                     question == found.question
                     total == found.total
                 IN IF question = NoQuestion THEN Nothing
                    ELSE LET current_index == CurrentIndex(payload)
                         IN Result(
                              << ThreadItemUpdated(sender.id,
                                    build_mcq_widget(question_id, current_index, total,
                                                     question.prompt, question.options,
                                                     "", "idle", EmptyDict)) >>,
                              <<>>, 0,
                              widget_data(question_id, current_index, total,
                                          question.prompt, question.options,
                                          "", "idle", EmptyDict),
                              "")

NextOverflowLate(next_index, total) == next_index > total + 1

\* "if next_index > total": past the end, the quiz is finished
NextOverflow(next_index, total) == next_index > total

_handle_next_action(thread, payload, sender, mcq, n, now) ==
    IF ~HasWidget(sender) THEN Nothing
    ELSE LET question_id == Get(payload, "questionId", None)
         IN IF ~Truthy(question_id) THEN Nothing
            ELSE LET current_index == CurrentIndex(payload)
                     questions == IF HasQuiz(thread)
                                  THEN thread.metadata.current_quiz
                                  ELSE get_questions(mcq, 0)
                     total == Len(questions)
                     next_index == current_index + 1
                 IN IF NextOverflow(next_index, total)
                    THEN _handle_finish_action(thread, n, now)
                    ELSE IF next_index <= Len(questions)
                    THEN IF ~InRange(questions, next_index - 1)
                         THEN Result(<<>>, <<>>, 0, NoData, "IndexError")
                         ELSE LET next_question == Item(questions, next_index - 1)
                              IN Result(
                                   << ThreadItemUpdated(sender.id,
                                         build_mcq_widget(next_question.id, next_index,
                                             total, next_question.prompt,
                                             next_question.options, "", "idle",
                                             EmptyDict)) >>,
                                   <<>>, 0,
                                   widget_data(next_question.id, next_index, total,
                                               next_question.prompt,
                                               next_question.options, "", "idle",
                                               EmptyDict),
                                   "")
                    ELSE Nothing

ActionDefaultFinish(thread, act, sender, mcq, n, now) ==
    IF act.type = "mcq.submit"
    THEN _handle_submit_action(thread, act.payload, sender, mcq, n, now)
    ELSE IF act.type = "mcq.clear"
    THEN _handle_clear_action(thread, act.payload, sender, mcq)
    ELSE IF act.type = "mcq.next"
    THEN _handle_next_action(thread, act.payload, sender, mcq, n, now)
    ELSE _handle_finish_action(thread, n, now)

\* StarterAppServer.action: dispatch on the action type
action(thread, act, sender, mcq, n, now) ==
    IF act.type = "mcq.submit"
    THEN _handle_submit_action(thread, act.payload, sender, mcq, n, now)
    ELSE IF act.type = "mcq.clear"
    THEN _handle_clear_action(thread, act.payload, sender, mcq)
    ELSE IF act.type = "mcq.next"
    THEN _handle_next_action(thread, act.payload, sender, mcq, n, now)
    ELSE IF act.type = "mcq.finish"
    THEN _handle_finish_action(thread, n, now)
    ELSE Nothing

\* ------------------------------------------------------------------------
\* agents/starter_agent.py: the tools the agent calls during respond()
\* ------------------------------------------------------------------------
QOpt(label, value) == [label |-> label, value |-> value, disabled |-> None]

QuestionInput(id, prompt, options, correct_answer, hint, explanation) ==
    [id |-> id, prompt |-> prompt, options |-> options,
     correct_answer |-> correct_answer, hint |-> hint, explanation |-> explanation]

\* question sets the agent generates
GenA == QuestionInput("g1", "2 + 2 = ?", << QOpt("Three", "a"), QOpt("Four", "B") >>,
                      "B", None, "Two and two make four.")
GenB == QuestionInput("g2", "Is water wet?", << QOpt("Yes", "a"), QOpt("No", "b") >>,
                      "a", "Touch it.", None)
GenC == QuestionInput("q2", "Largest planet?", << QOpt("Mars", "a"), QOpt("Jupiter", "c") >>,
                      "c", "A gas giant.", "Jupiter is the largest planet.")

QuizInputs == { <<>>, <<GenC>>, <<GenA, GenB, GenC>> }

\* the dict create_questions builds from one QuestionInput
FormatQuestion(q) ==
    [id |-> q.id,
     prompt |-> q.prompt,
     options |-> [i \in 1..Len(q.options) |->
                    [label |-> q.options[i].label,
                     value |-> q.options[i].value,
                     disabled |-> q.options[i].disabled]],
     correct_answer |-> q.correct_answer,
     hint |-> q.hint,
     explanation |-> q.explanation]

FormatQuestions(questions) == [i \in 1..Len(questions) |-> FormatQuestion(questions[i])]

NoCtx == [missing |-> TRUE]

\* StarterAgentContext; current_quiz None is the empty list (both are falsy
\* and the field is only read through "not current_quiz" and indexing)
StarterAgentContext(thread, request_context) ==
    [thread |-> thread, request_context |-> request_context,
     current_quiz |-> <<>>, current_index |-> 0]

Limits == {1, 5}
QuestionIndexes == -1..2
Messages == {None, "Here's your first question:"}

\* the quiz show_mcq_widget works on: the store's first five when none is set
ShowQuiz(c, mcq) ==
    IF c.current_quiz = <<>> THEN get_questions(mcq, 5) ELSE c.current_quiz

ShowInRange(question_index, quiz) ==
    ~(question_index < 0 \/ question_index >= Len(quiz))

\* ------------------------------------------------------------------------
\* State
\* ------------------------------------------------------------------------
VARIABLES
    threads,        \* MemoryStore._threads
    mcq_questions,  \* MCQStore.questions
    next_id,        \* generate_item_id calls made so far; also the clock
    ctx,            \* StarterAgentContext of the respond() in progress, or NoCtx
    shown,          \* widget items the client displays, oldest first
    events,         \* events the last operation streamed to the client
    last,           \* the last operation, its inputs and what it rendered
    sources,        \* for each displayed item, the list its document came from
    answered        \* payload indexes of the correct submissions handled so far

vars == <<threads, mcq_questions, next_id, ctx, shown, events, last, sources, answered>>

\* request contexts: RequestContext.user_id is None for an anonymous caller
Contexts == { [user_id |-> None] }
ThreadIds == { "t1" }

\* ------------------------------------------------------------------------
\* The client
\* ------------------------------------------------------------------------
\* the sender the framework resolves for an action: a displayed item or none
Senders == { NoSender } \cup { shown[i] : i \in 1..Len(shown) }

\* A client that acts through the displayed document: it triggers the
\* controls that are not disabled and echoes their action unmodified; the
\* form adds the chosen option as "answer".
DocActions(doc) ==
    (IF DocSubmitButton(doc).disabled \/ DocRadio(doc).disabled THEN {}
     ELSE { [type |-> DocForm(doc).onSubmitAction.type,
             payload |-> DocForm(doc).onSubmitAction.payload @@ ("answer" :> v)]
              : v \in { DocRadio(doc).options[i].value
                          : i \in 1..Len(DocRadio(doc).options) } })
    \cup { DocClearButton(doc).onClickAction }
    \cup (IF DocNextButton(doc).disabled THEN {}
          ELSE { DocNextButton(doc).onClickAction })

\* A client that sends what it likes: any subset of the payload keys
QuestionIds == { "", "q1", "q2", "g1", "g2", "zz" }
Answers == { "", "a", "A", "b", "B", "c" }

Optional(key, values) == { EmptyDict } \cup { (key :> v) : v \in values }

ClearPayloads ==
    { q @@ i : q \in Optional("questionId", QuestionIds),
               i \in Optional("index", (-MaxBelow)..MaxIndex) }

SubmitPayloads ==
    { p @@ a : p \in ClearPayloads, a \in Optional("answer", Answers) }

OtherTypes == { "mcq.skip", "" }

\* the client replaces the root of the item a ThreadItemUpdated names
RECURSIVE ApplyEvents(_, _)
ApplyEvents(items, evs) ==
    IF evs = <<>> THEN items
    ELSE LET e == Head(evs)
             updated == IF e.type = "thread.item.updated"
                        THEN [i \in 1..Len(items) |->
                                 IF items[i].id = e.item_id
                                 THEN WidgetItem(items[i].id, e.update.widget)
                                 ELSE items[i]]
                        ELSE items
         IN ApplyEvents(updated, Tail(evs))

\* the client keeps the MaxShown most recent widget items
Recent(items) ==
    IF Len(items) > MaxShown
    THEN SubSeq(items, Len(items) - MaxShown + 1, Len(items))
    ELSE items

\* ------------------------------------------------------------------------
\* Operations
\* ------------------------------------------------------------------------
Init ==
    /\ threads = EmptyDict
    /\ mcq_questions = DefaultQuestions
    /\ next_id = 0
    /\ ctx = NoCtx
    /\ shown = <<>>
    /\ events = <<>>
    /\ last = [op |-> "init"]
    /\ sources = <<>>
    /\ answered = {}

\* the framework stores a new thread before the first respond()
CreateThread(c, t) ==
    /\ ctx = NoCtx
    /\ ~HasThread(threads, t, c)
    /\ threads' = save_thread(threads, ThreadMetadata(t, next_id, EmptyDict), c)
    /\ events' = <<>>
    /\ last' = [op |-> "create_thread", thread_id |-> t]
    /\ UNCHANGED <<mcq_questions, next_id, ctx, shown, sources, answered>>

\* respond(): load the thread's items, then run the agent with a new context
BeginRespond(c, t) ==
    /\ ctx = NoCtx
    /\ HasThread(threads, t, c)
    /\ threads' = _thread_state(threads, t, c, next_id)
    /\ ctx' = StarterAgentContext(load_thread(threads, t, c), c)
    /\ events' = <<>>
    /\ last' = [op |-> "respond", thread_id |-> t]
    /\ UNCHANGED <<mcq_questions, next_id, shown, sources, answered>>

EndRespond ==
    /\ ctx # NoCtx
    /\ ctx' = NoCtx
    /\ events' = <<>>
    /\ last' = [op |-> "respond_done"]
    /\ UNCHANGED <<threads, mcq_questions, next_id, shown, sources, answered>>

GetQuestionsTool(limit) ==
    /\ ctx # NoCtx
    /\ LET questions == get_questions(mcq_questions, limit)
       IN /\ ctx' = [ctx EXCEPT !.current_quiz = questions, !.current_index = 0]
          /\ last' = [op |-> "get_questions", limit |-> limit,
                      result |-> [questions |-> questions, total |-> Len(questions)]]
    /\ events' = <<>>
    /\ UNCHANGED <<threads, mcq_questions, next_id, shown, sources, answered>>

CreateQuestionsExtending(questions) ==
    /\ ctx # NoCtx
    /\ LET formatted_questions == FormatQuestions(questions)
           metadata == ("current_quiz" :>
                          Get(ctx.thread.metadata, "current_quiz", <<>>)
                          \o formatted_questions)
                       @@ ("current_index" :> 0) @@ ctx.thread.metadata
           thread == [ctx.thread EXCEPT !.metadata = metadata]
       IN /\ ctx' = [ctx EXCEPT !.current_quiz = formatted_questions,
                                !.current_index = 0,
                                !.thread = thread]
          /\ threads' = save_thread(threads, thread, ctx.request_context)
          /\ last' = [op |-> "create_questions", questions |-> questions,
                      result |-> [questions |-> formatted_questions,
                                  total |-> Len(formatted_questions)]]
    /\ events' = <<>>
    /\ UNCHANGED <<mcq_questions, next_id, shown, sources, answered>>

CreateQuestionsTool(questions) ==
    /\ ctx # NoCtx
    /\ LET formatted_questions == FormatQuestions(questions)
           metadata == ("current_quiz" :> formatted_questions)
                       @@ ("current_index" :> 0) @@ ctx.thread.metadata
           thread == [ctx.thread EXCEPT !.metadata = metadata]
       IN /\ ctx' = [ctx EXCEPT !.current_quiz = formatted_questions,
                                !.current_index = 0,
                                !.thread = thread]
          /\ threads' = save_thread(threads, thread, ctx.request_context)
          /\ last' = [op |-> "create_questions", questions |-> questions,
                      result |-> [questions |-> formatted_questions,
                                  total |-> Len(formatted_questions)]]
    /\ events' = <<>>
    /\ UNCHANGED <<mcq_questions, next_id, shown, sources, answered>>

ShowMcqWidgetTool(question_index, message) ==
    /\ ctx # NoCtx
    /\ LET quiz == ShowQuiz(ctx, mcq_questions)
           ctx1 == [ctx EXCEPT !.current_quiz = quiz,
                               !.current_index = IF ctx.current_quiz = <<>> THEN 0 ELSE @]
       IN IF ~ShowInRange(question_index, quiz)
          THEN /\ ctx' = ctx1
               /\ events' = <<>>
               /\ last' = [op |-> "show_mcq_widget", question_index |-> question_index,
                           data |-> NoData,
                           result |-> <<"Question index ", question_index,
                                        " is out of range. Available: 0-", Len(quiz) - 1>>]
               /\ UNCHANGED <<next_id, shown, sources>>
          ELSE LET question == Item(quiz, question_index)
                   widget == build_mcq_widget(question.id, question_index + 1, Len(quiz),
                                              question.prompt, question.options,
                                              "", "idle", EmptyDict)
                   intro == IF Truthy(message)
                            THEN << ThreadItemDoneEvent(
                                      AssistantMessageItem(ctx.thread.id,
                                          generate_item_id("message", next_id),
                                          next_id, message)) >>
                            ELSE <<>>
                   n == next_id + Len(intro)
                   item == WidgetItem(generate_item_id("widget", n), widget)
               IN /\ n + 1 <= MaxIds
                  /\ ctx' = [ctx1 EXCEPT !.current_index = question_index]
                  /\ next_id' = n + 1
                  /\ events' = intro \o << ThreadItemDoneEvent(item) >>
                  /\ shown' = Recent(Append(shown, item))
                  /\ sources' = Recent(Append(sources, quiz))
                  /\ last' = [op |-> "show_mcq_widget", question_index |-> question_index,
                              data |-> widget_data(question.id, question_index + 1,
                                                   Len(quiz), question.prompt,
                                                   question.options, "", "idle", EmptyDict),
                              result |-> <<"Question ", question_index + 1, " of ",
                                           Len(quiz), " displayed successfully.">>]
    /\ UNCHANGED <<threads, mcq_questions, answered>>

\* the list a handler resolves its payload against
Resolved(thread, mcq, act) ==
    IF act.type = "mcq.next"
    THEN IF HasQuiz(thread) THEN thread.metadata.current_quiz
         ELSE get_questions(mcq, 0)
    ELSE IF FindById(IF HasQuiz(thread) THEN thread.metadata.current_quiz ELSE <<>>,
                     Get(act.payload, "questionId", None)) # NoQuestion
         THEN thread.metadata.current_quiz
         ELSE mcq

\* the framework loads the thread and the sender, then runs action()
Handle(c, t, act, sender) ==
    /\ ctx = NoCtx
    /\ HasThread(threads, t, c)
    /\ LET thread == load_thread(threads, t, c)
           r == action(thread, act, sender, mcq_questions, next_id, next_id)
       IN /\ next_id + r.ids <= MaxIds
          /\ next_id' = next_id + r.ids
          /\ threads' = IF r.saved = <<>> THEN threads
                        ELSE add_thread_item(threads, thread.id, r.saved[1], c, next_id)
          /\ events' = r.events
          /\ shown' = ApplyEvents(shown, r.events)
          /\ sources' = [i \in 1..Len(shown) |->
                            IF r.data # NoData /\ shown[i].id = sender.id
                            THEN Resolved(thread, mcq_questions, act) ELSE sources[i]]
          /\ last' = [op |-> act.type, thread_id |-> t, payload |-> act.payload,
                      sender |-> sender, data |-> r.data, raised |-> r.raised]
          /\ answered' = IF act.type = "mcq.submit" /\ r.data # NoData
                            /\ r.data.status = "correct"
                         THEN answered \cup { r.data.index } ELSE answered
    /\ UNCHANGED <<mcq_questions, ctx>>

\* -- the client acting through a displayed document
Click(c, t, type) ==
    \E i \in 1..Len(shown) :
        \E act \in DocActions(shown[i].widget) :
            /\ act.type = type
            /\ Handle(c, t, act, shown[i])

ClickSubmit(c, t) == Click(c, t, "mcq.submit")
ClickClear(c, t) == Click(c, t, "mcq.clear")
ClickNext(c, t) == Click(c, t, "mcq.next")
ClickFinish(c, t) == Click(c, t, "mcq.finish")

\* -- a client sending any payload
SubmitAction(c, t) ==
    \E p \in SubmitPayloads, sender \in Senders :
        Handle(c, t, [type |-> "mcq.submit", payload |-> p], sender)

ClearAction(c, t) ==
    \E p \in ClearPayloads, sender \in Senders :
        Handle(c, t, [type |-> "mcq.clear", payload |-> p], sender)

NextAction(c, t) ==
    \E p \in ClearPayloads, sender \in Senders :
        Handle(c, t, [type |-> "mcq.next", payload |-> p], sender)

FinishAction(c, t) ==
    \E p \in ClearPayloads, sender \in Senders :
        Handle(c, t, [type |-> "mcq.finish", payload |-> p], sender)

OtherAction(c, t) ==
    \E ty \in OtherTypes, p \in ClearPayloads, sender \in Senders :
        Handle(c, t, [type |-> ty, payload |-> p], sender)

\* ------------------------------------------------------------------------
\* Specifications
\* ------------------------------------------------------------------------
\* The conversation: the agent's tools and a client acting through widgets
Next ==
    \/ \E c \in Contexts, t \in ThreadIds : CreateThread(c, t)
    \/ \E c \in Contexts, t \in ThreadIds : BeginRespond(c, t)
    \/ EndRespond
    \/ \E limit \in Limits : GetQuestionsTool(limit)
    \/ \E questions \in QuizInputs : CreateQuestionsTool(questions)
    \/ \E question_index \in QuestionIndexes, message \in Messages :
          ShowMcqWidgetTool(question_index, message)
    \/ \E c \in Contexts, t \in ThreadIds : ClickSubmit(c, t)
    \/ \E c \in Contexts, t \in ThreadIds : ClickClear(c, t)
    \/ \E c \in Contexts, t \in ThreadIds : ClickNext(c, t)
    \/ \E c \in Contexts, t \in ThreadIds : ClickFinish(c, t)

Spec == Init /\ [][Next]_vars

\* The first request of a client that sends any payload, after a respond()
\* in which the agent stored no quiz or one of its question sets and showed
\* one question, with or without an introduction
Metadatas ==
    { EmptyDict }
    \cup { ("current_quiz" :> FormatQuestions(q)) @@ ("current_index" :> 0)
            : q \in QuizInputs }

StartAt(metadata, question_index, message) ==
        LET thread == ThreadMetadata("t1", 0, metadata)
            quiz == IF HasQuiz(thread) /\ metadata.current_quiz # <<>>
                    THEN metadata.current_quiz
                    ELSE get_questions(DefaultQuestions, 5)
            question == Item(quiz, question_index)
            n == IF Truthy(message) THEN 1 ELSE 0
        IN /\ ShowInRange(question_index, quiz)
           /\ threads = ("anonymous" :> ("t1" :> _ThreadState(thread, <<>>)))
           /\ mcq_questions = DefaultQuestions
           /\ next_id = n + 1
           /\ ctx = NoCtx
           /\ shown = << WidgetItem(generate_item_id("widget", n),
                            build_mcq_widget(question.id, question_index + 1, Len(quiz),
                                             question.prompt, question.options,
                                             "", "idle", EmptyDict)) >>
           /\ events = <<>>
           /\ last = [op |-> "respond_done"]
           /\ sources = << quiz >>
           /\ answered = {}

InitAny ==
    \E metadata \in Metadatas, question_index \in QuestionIndexes, message \in Messages :
        StartAt(metadata, question_index, message)

FirstRequest == last.op = "respond_done"

NextAny ==
    \/ \E c \in Contexts, t \in ThreadIds : FirstRequest /\ SubmitAction(c, t)
    \/ \E c \in Contexts, t \in ThreadIds : FirstRequest /\ ClearAction(c, t)
    \/ \E c \in Contexts, t \in ThreadIds : FirstRequest /\ NextAction(c, t)
    \/ \E c \in Contexts, t \in ThreadIds : FirstRequest /\ FinishAction(c, t)
    \/ \E c \in Contexts, t \in ThreadIds : FirstRequest /\ OtherAction(c, t)

SpecAny == InitAny /\ [][NextAny]_vars

\* A clear with any payload, sent first or after the client submitted an
\* answer through the displayed document
NextClear ==
    \/ \E c \in Contexts, t \in ThreadIds : FirstRequest /\ ClickSubmit(c, t)
    \/ \E c \in Contexts, t \in ThreadIds :
          (FirstRequest \/ last.op = "mcq.submit") /\ ClearAction(c, t)

SpecClear == InitAny /\ [][NextClear]_vars

\* The first call of build_mcq_widget, for any arguments and any behaviour
\* of the template machinery
TemplateCard(data) ==
    [type |-> "Card",
     children |-> << [type |-> "Title", value |-> data.prompt] >>]

Untyped(data) == [children |-> << [type |-> "Title", value |-> data.prompt] >>]

Outcomes(data) ==
    { Raises, ReturnsNone, ReturnsOther, ReturnsDict(TemplateCard(data)),
      ReturnsDict(Untyped(data)), ReturnsDict(EmptyDict),
      ReturnsRoot(TemplateCard(data)) }

Templates(data) ==
    { Template("missing", ReturnsNone, ReturnsNone),
      Template("unreadable", ReturnsNone, ReturnsNone) }
    \cup { Template("loaded", built, ReturnsNone)
             : built \in Outcomes(data) \ { ReturnsNone } }
    \cup { Template("loaded", ReturnsNone, rebuilt) : rebuilt \in Outcomes(data) }

RenderQuestions == { DefaultQuestions[1], FormatQuestion(GenA) }
Statuses == { "idle", "correct", "incorrect", "review" }
Selections == { "", "a" }
Feedbacks == { EmptyDict, [hint |-> "Touch it.", explanation |-> None] }

BuildMcqWidget(question, index, total, selected, status, feedback) ==
    LET data == widget_data(question.id, index, total, question.prompt,
                            question.options, selected, status, feedback)
    IN \E template \in Templates(data) :
          /\ last.op = "init"
          /\ last' = [op |-> "build_mcq_widget",
                      template |-> template,
                      data |-> data,
                      result |-> BuildWithTemplate(template, question.id, index,
                                    total, question.prompt, question.options,
                                    selected, status, feedback)]
          /\ events' = <<>>
          /\ UNCHANGED <<threads, mcq_questions, next_id, ctx, shown, sources, answered>>

NextRender ==
    \E question \in RenderQuestions, index \in 0..MaxIndex, total \in 1..MaxIndex,
       selected \in Selections, status \in Statuses, feedback \in Feedbacks :
        BuildMcqWidget(question, index, total, selected, status, feedback)

SpecRender == Init /\ [][NextRender]_vars

\* -- the store's own operations, called by the framework between requests;
\* next_id is also the clock, and every operation takes time
DeleteThread(c, t) ==
    /\ ctx = NoCtx
    /\ next_id < MaxIds
    /\ next_id' = next_id + 1
    /\ threads' = delete_thread(threads, t, c)
    /\ events' = <<>>
    /\ last' = [op |-> "delete_thread", thread_id |-> t, user_id |-> _get_user_id(c),
                existed |-> HasThread(threads, t, c)]
    /\ UNCHANGED <<mcq_questions, ctx, shown, sources, answered>>

\* a thread saved with its metadata: as it is stored when it exists, new
\* otherwise
SaveThread(c, t, metadata) ==
    /\ ctx = NoCtx
    /\ next_id < MaxIds
    /\ next_id' = next_id + 1
    /\ LET thread == IF HasThread(threads, t, c)
                     THEN [load_thread(threads, t, c) EXCEPT !.metadata = metadata]
                     ELSE ThreadMetadata(t, next_id, metadata)
       IN threads' = save_thread(threads, thread, c)
    /\ events' = <<>>
    /\ last' = [op |-> "save_thread", thread_id |-> t, user_id |-> _get_user_id(c),
                existed |-> HasThread(threads, t, c)]
    /\ UNCHANGED <<mcq_questions, ctx, shown, sources, answered>>

\* the items the framework stores: ids are unique within a thread, the
\* times of creation are neither distinct nor in the order of the ids
ItemIds == { "i1", "i2", "i3" }
ItemCreatedAt(id) == IF id = "i2" THEN 1 ELSE 2
ItemTexts == { "x", "y" }
StoreItem(t, id, text) == AssistantMessageItem(t, id, ItemCreatedAt(id), text)

ItemIdsOf(T, t, c) ==
    IF HasThread(T, t, c)
    THEN { _items(T, t, c)[i].id : i \in 1..Len(_items(T, t, c)) }
    ELSE {}

AddThreadItem(c, t, item) ==
    /\ ctx = NoCtx
    /\ next_id < MaxIds
    /\ item.id \notin ItemIdsOf(threads, t, c)
    /\ threads' = add_thread_item(threads, t, item, c, next_id)
    /\ next_id' = next_id + 1
    /\ events' = <<>>
    /\ last' = [op |-> "add_thread_item", thread_id |-> t, user_id |-> _get_user_id(c),
                existed |-> HasThread(threads, t, c), item |-> item]
    /\ UNCHANGED <<mcq_questions, ctx, shown, sources, answered>>

SaveItem(c, t, item) ==
    /\ ctx = NoCtx
    /\ next_id < MaxIds
    /\ threads' = save_item(threads, t, item, c, next_id)
    /\ next_id' = next_id + 1
    /\ events' = <<>>
    /\ last' = [op |-> "save_item", thread_id |-> t, user_id |-> _get_user_id(c),
                existed |-> HasThread(threads, t, c), item |-> item]
    /\ UNCHANGED <<mcq_questions, ctx, shown, sources, answered>>

DeleteThreadItem(c, t, item_id) ==
    /\ ctx = NoCtx
    /\ next_id < MaxIds
    /\ threads' = delete_thread_item(threads, t, item_id, c, next_id)
    /\ next_id' = next_id + 1
    /\ events' = <<>>
    /\ last' = [op |-> "delete_thread_item", thread_id |-> t,
                user_id |-> _get_user_id(c),
                existed |-> HasThread(threads, t, c), item_id |-> item_id]
    /\ UNCHANGED <<mcq_questions, ctx, shown, sources, answered>>

LoadItemReadOnly(c, t, item_id) ==
    /\ ctx = NoCtx
    /\ next_id < MaxIds
    /\ next_id' = next_id + 1
    /\ threads' = threads
    /\ events' = <<>>
    /\ last' = [op |-> "load_item", thread_id |-> t, user_id |-> _get_user_id(c),
                existed |-> HasThread(threads, t, c), item_id |-> item_id,
                result |-> load_item(threads, t, item_id, c, next_id)]
    /\ UNCHANGED <<mcq_questions, ctx, shown, sources, answered>>

LoadItem(c, t, item_id) ==
    /\ ctx = NoCtx
    /\ next_id < MaxIds
    /\ next_id' = next_id + 1
    /\ threads' = _thread_state(threads, t, c, next_id)
    /\ events' = <<>>
    /\ last' = [op |-> "load_item", thread_id |-> t, user_id |-> _get_user_id(c),
                existed |-> HasThread(threads, t, c), item_id |-> item_id,
                result |-> load_item(threads, t, item_id, c, next_id)]
    /\ UNCHANGED <<mcq_questions, ctx, shown, sources, answered>>

\* a page follows the one before it when it is asked for with that page's
\* cursor and the same thread, limit and order
Follows(c, t, after, limit, order) ==
    /\ last.op = "load_thread_items"
    /\ last.thread_id = t /\ last.user_id = _get_user_id(c)
    /\ last.limit = limit /\ last.order = order
    /\ last.page.has_more /\ last.page.after = after

LoadThreadItems(c, t, after, limit, order) ==
    /\ ctx = NoCtx
    /\ next_id < MaxIds
    /\ next_id' = next_id + 1
    /\ threads' = _thread_state(threads, t, c, next_id)
    /\ events' = <<>>
    /\ LET page == load_thread_items(threads, t, after, limit, order, c, next_id)
       IN last' = [op |-> "load_thread_items", thread_id |-> t,
                   user_id |-> _get_user_id(c),
                   existed |-> HasThread(threads, t, c),
                   after |-> after, limit |-> limit, order |-> order, page |-> page,
                   pages |-> IF Follows(c, t, after, limit, order)
                             THEN Append(last.pages, page) ELSE << page >>]
    /\ UNCHANGED <<mcq_questions, ctx, shown, sources, answered>>

LoadThreads(c, limit, after, order) ==
    /\ ctx = NoCtx
    /\ next_id < MaxIds
    /\ next_id' = next_id + 1
    /\ threads' = _get_user_threads(threads, _get_user_id(c))
    /\ events' = <<>>
    /\ last' = [op |-> "load_threads", user_id |-> _get_user_id(c),
                after |-> after, limit |-> limit, order |-> order,
                page |-> load_threads(threads, limit, after, order, c)]
    /\ UNCHANGED <<mcq_questions, ctx, shown, sources, answered>>

\* The life of a question set: the agent's tools that set one up, and the
\* thread deleted or touched by an item operation between requests
GenD == QuestionInput("g1", "3 + 3 = ?", << QOpt("Six", "a"), QOpt("Nine", "b") >>,
                      "a", None, None)

SetInputs == QuizInputs \cup { <<GenA, GenD>> }

NextSets ==
    \/ \E c \in Contexts, t \in ThreadIds : CreateThread(c, t)
    \/ \E c \in Contexts, t \in ThreadIds : BeginRespond(c, t)
    \/ EndRespond
    \/ \E limit \in 0..MaxIndex : GetQuestionsTool(limit)
    \/ \E questions \in SetInputs : CreateQuestionsTool(questions)
    \/ \E question_index \in QuestionIndexes : ShowMcqWidgetTool(question_index, None)
    \/ \E c \in Contexts, t \in ThreadIds : DeleteThread(c, t)
    \/ \E c \in Contexts, t \in ThreadIds, id \in ItemIds : LoadItem(c, t, id)

SpecSets == Init /\ [][NextSets]_vars

\* The store used by two users with two thread ids each
StoreContexts == { [user_id |-> None], [user_id |-> "u1"] }
StoreThreadIds == { "t1", "t2" }
StoreMetadatas ==
    { EmptyDict,
      ("current_quiz" :> FormatQuestions(<<GenC>>)) @@ ("current_index" :> 0) }

\* a submit of the store's second question from a document that shows it
StoreSender ==
    LET question == DefaultQuestions[2]
    IN WidgetItem(generate_item_id("widget", 0),
                  build_mcq_widget(question.id, 2, 2, question.prompt, question.options,
                                   "", "idle", EmptyDict))

QuizSubmit(c, t) ==
    Handle(c, t, [type |-> "mcq.submit",
                  payload |-> [questionId |-> "q2", value |-> "b", index |-> 2]],
           StoreSender)

StoreSlots ==
    { << [user_id |-> None], "t1" >>, << [user_id |-> None], "t2" >>,
      << [user_id |-> "u1"], "t1" >> }

NextStore ==
    \/ \E s \in StoreSlots, metadata \in StoreMetadatas : SaveThread(s[1], s[2], metadata)
    \/ \E s \in StoreSlots : DeleteThread(s[1], s[2])
    \/ \E s \in StoreSlots, id \in { "i1", "i2" } :
          AddThreadItem(s[1], s[2], StoreItem(s[2], id, "x"))
    \/ \E s \in StoreSlots : SaveItem(s[1], s[2], StoreItem(s[2], "i1", "y"))
    \/ \E s \in StoreSlots : DeleteThreadItem(s[1], s[2], "i1")
    \/ \E s \in StoreSlots : LoadItem(s[1], s[2], "i1")
    \/ \E s \in StoreSlots : LoadThreadItems(s[1], s[2], None, MaxLimit, "asc")
    \/ \E c \in StoreContexts : LoadThreads(c, MaxLimit, None, "desc")
    \/ \E s \in StoreSlots : QuizSubmit(s[1], s[2])

SpecStore == Init /\ [][NextStore]_vars

\* Paging through the items of one thread: the thread holds any list of
\* distinct items, or does not exist yet
ItemLists ==
    { seq \in UNION { [1..n -> ItemIds] : n \in 0..Cardinality(ItemIds) } :
        \A i, j \in 1..Len(seq) : i # j => seq[i] # seq[j] }

RECURSIVE AddAll(_, _, _, _)
AddAll(T, t, ids, c) ==
    IF ids = <<>> THEN T
    ELSE add_thread_item(AddAll(T, t, SubSeq(ids, 1, Len(ids) - 1), c), t,
                         StoreItem(t, ids[Len(ids)], "x"), c, 0)

InitPaging ==
    /\ \E ids \in ItemLists : threads = AddAll(EmptyDict, "t1", ids, [user_id |-> None])
    /\ mcq_questions = DefaultQuestions
    /\ next_id = 0
    /\ ctx = NoCtx
    /\ shown = <<>>
    /\ events = <<>>
    /\ last = [op |-> "init"]
    /\ sources = <<>>
    /\ answered = {}

NextPaging ==
    \/ \E c \in Contexts, t \in ThreadIds, limit \in 1..MaxLimit, order \in { "asc", "desc" } :
          LoadThreadItems(c, t, None, limit, order)
    \/ \E c \in Contexts, t \in ThreadIds, limit \in 1..MaxLimit, order \in { "asc", "desc" } :
          /\ Follows(c, t, last.page.after, limit, order)
          /\ LoadThreadItems(c, t, last.page.after, limit, order)

SpecPaging == InitPaging /\ [][NextPaging]_vars

\* ------------------------------------------------------------------------
\* Properties
\* ------------------------------------------------------------------------
Anonymous == [user_id |-> None]

\* the thread the last action was handled for
LastThread == load_thread(threads, last.thread_id, Anonymous)

\* the last operation was the handler of this action type and it rendered
Rendered(type) == last.op = type /\ last.data # NoData

\* the document of the widget update the last operation emitted
LastWidget == events[1].update.widget

\* the question the last submit or clear resolved
LastQuestion == Lookup(LastThread, mcq_questions, last.payload.questionId).question

\* the status a document displays: everything is locked once correct, and
\* the submit button asks to try again after a wrong answer
DocStatus(doc) ==
    IF DocRadio(doc).disabled /\ DocSubmitButton(doc).disabled /\ ~DocNextButton(doc).disabled
    THEN "correct"
    ELSE IF DocSubmitButton(doc).label = "Try again" THEN "incorrect"
    ELSE "idle"

\* C1: a submit that resolves its question sets status "correct" exactly
\* when the payload's answer is the same string as the question's correct
\* answer, letter case included, and "incorrect" otherwise.
C1_SubmitExactMatch ==
    Rendered("mcq.submit") =>
        LET exact == "answer" \in DOMAIN last.payload
                     /\ last.payload.answer = LastQuestion.correct_answer
        IN /\ last.data.status = (IF exact THEN "correct" ELSE "incorrect")
           /\ DocStatus(LastWidget) = last.data.status

\* a submission that differs from the correct answer only by letter case
C1_Witness ==
    /\ Rendered("mcq.submit")
    /\ LastQuestion.correct_answer = "B"
    /\ Get(last.payload, "answer", None) = "b"
    /\ last.data.status = "incorrect"

\* C2: the document submit and clear re-render carries the index of the
\* payload, whatever the index and whatever the outcome; the documents of
\* next are the ones that carry another index.
C2_SubmitClearKeepIndex ==
    /\ (Rendered("mcq.submit") \/ Rendered("mcq.clear")) =>
          /\ Len(events) = 1
          /\ "index" \in DOMAIN last.payload =>
                /\ DocIndex(LastWidget) = last.payload.index
                /\ DocForm(LastWidget).onSubmitAction.payload.index = last.payload.index
                /\ DocClearButton(LastWidget).onClickAction.payload.index = last.payload.index
                /\ DocNextButton(LastWidget).onClickAction.payload.index = last.payload.index
    /\ (Rendered("mcq.next") /\ "index" \in DOMAIN last.payload) =>
          DocIndex(LastWidget) = last.payload.index + 1

\* a correct submission at position 3 that stays at position 3
C2_Witness ==
    /\ Rendered("mcq.submit")
    /\ last.data.status = "correct"
    /\ Get(last.payload, "index", 1) = 3
    /\ DocIndex(LastWidget) = 3

\* C3: whatever actions are handled for a thread, next produces the
\* document of position p+1 only after a submit with the correct answer
\* was handled at position p.
C3_NextOnlyAfterCorrect ==
    Rendered("mcq.next") => (last.data.index - 1) \in answered

\* C4: with a client that echoes the payloads of the documents it displays,
\* every document the agent's tools and the handlers emit has
\* 1 <= index <= total.
C4_IndexWithinTotal ==
    \A i \in 1..Len(shown) :
        /\ 1 <= DocIndex(shown[i].widget)
        /\ DocIndex(shown[i].widget) <= DocTotal(shown[i].widget)

\* C5: the list a submit, clear or next resolves against is the list the
\* document it was triggered from was rendered from.
C5_ResolveAgainstDisplayed ==
    [][\A i \in 1..Len(shown) :
          (/\ last'.op \in { "mcq.submit", "mcq.clear", "mcq.next" }
           /\ last'.data # NoData
           /\ last'.sender.id = shown[i].id)
          => sources'[i] = sources[i]]_vars

\* the hidden records of a thread, oldest first
HiddenItems(T, thread_id) ==
    SelectSeq(_items(T, thread_id, Anonymous),
              LAMBDA item : item.type = "hidden_context_item")

\* the last action came from a widget and named a question
WellFormed(l) ==
    HasWidget(l.sender) /\ Truthy(Get(l.payload, "questionId", None))

\* the list the last next resolved its payload against
LastNextList == Resolved(LastThread, mcq_questions,
                         [type |-> "mcq.next", payload |-> last.payload])

\* C6: next with payload index p on a resolved list of length n, with
\* p + 1 <= n, emits one widget update showing the question stored at
\* 1-based position p + 1, with index p + 1, total n, status idle, empty
\* selection and no feedback.
C6_NextRendersFollowing ==
    (/\ last.op = "mcq.next"
     /\ WellFormed(last)
     /\ "index" \in DOMAIN last.payload
     /\ last.payload.index + 1 <= Len(LastNextList))
    => LET p == last.payload.index
           n == Len(LastNextList)
       IN /\ last.raised = ""
          /\ Len(events) = 1
          /\ p + 1 \in 1..n
          /\ last.data = widget_data(LastNextList[p + 1].id, p + 1, n,
                                     LastNextList[p + 1].prompt,
                                     LastNextList[p + 1].options,
                                     "", "idle", EmptyDict)
          /\ events[1] = ThreadItemUpdated(last.sender.id,
                                           _build_fallback_widget(last.data))

\* what finish emits for the thread of action l in store T after n ids
FinishEvents(T, l, n) ==
    _handle_finish_action(load_thread(T, l.thread_id, Anonymous), n, n).events

\* the payload index of a next equals the length of its resolved list
AtTotal(l, thread) ==
    /\ l.op = "mcq.next"
    /\ "index" \in DOMAIN l.payload
    /\ l.payload.index = Len(Resolved(thread, mcq_questions,
                                      [type |-> "mcq.next", payload |-> l.payload]))

\* C7 as stated: every next whose index equals the total emits what finish
\* emits for the thread, the closing message and no widget document.
C7_NextAtTotalIsFinish ==
    [][AtTotal(last', load_thread(threads, last'.thread_id, Anonymous))
          => events' = FinishEvents(threads, last', next_id)]_vars

\* C7: a next triggered from a widget, naming a question, whose index equals
\* the total emits what finish emits for the thread: the closing message
\* and no widget document.
C7_WellFormedNextAtTotalIsFinish ==
    [][(/\ AtTotal(last', load_thread(threads, last'.thread_id, Anonymous))
        /\ WellFormed(last'))
          => /\ events' = FinishEvents(threads, last', next_id)
             /\ events'[1].item.content[1].text = ClosingText
             /\ last'.data = NoData
             /\ shown' = shown]_vars

\* a next at the last position answered by the closing message
C7_Witness ==
    /\ last.op = "mcq.next"
    /\ WellFormed(last)
    /\ Get(last.payload, "index", 0) = Len(LastNextList)
    /\ Len(LastNextList) = 3
    /\ Len(events) = 1
    /\ events[1].type = "thread.item.done"

\* C8: finish emits exactly one event, the closing assistant message; it
\* updates no widget and leaves the thread's question list, the store and
\* the thread's hidden records as they were.
C8_FinishOnlyCloses ==
    [][last'.op = "mcq.finish"
          => /\ Len(events') = 1
             /\ events'[1].type = "thread.item.done"
             /\ events'[1].item.type = "assistant_message"
             /\ events'[1].item.content = << [text |-> ClosingText] >>
             /\ shown' = shown
             /\ load_thread(threads', last'.thread_id, Anonymous)
                   = load_thread(threads, last'.thread_id, Anonymous)
             /\ mcq_questions' = mcq_questions
             /\ HiddenItems(threads', last'.thread_id)
                   = HiddenItems(threads, last'.thread_id)]_vars

\* a finish sent without a sender on a thread that holds a generated quiz
C8_Witness ==
    /\ last.op = "mcq.finish"
    /\ last.sender = NoSender
    /\ HasQuiz(LastThread)
    /\ Len(events) = 1
    /\ events[1].type = "thread.item.done"

\* C9: a submit that resolves its question appends exactly one hidden
\* record to the thread, naming the answer, the question id and the result,
\* and emits the widget update and nothing else.
C9_SubmitOneHiddenRecord ==
    [][(last'.op = "mcq.submit" /\ last'.data # NoData)
          => LET before == HiddenItems(threads, last'.thread_id)
                 after == HiddenItems(threads', last'.thread_id)
                 record == after[Len(after)]
             IN /\ Len(after) = Len(before) + 1
                /\ SubSeq(after, 1, Len(before)) = before
                /\ record.content =
                      << "User submitted answer '",
                         Str(Get(last'.payload, "answer", None)),
                         "' for question ", last'.payload.questionId,
                         ". Result: ", last'.data.status, "." >>
                /\ Len(events') = 1
                /\ events'[1].type = "thread.item.updated"
                /\ events'[1].item_id = last'.sender.id]_vars

\* a correct submission recorded in the thread
C9_Witness ==
    /\ Rendered("mcq.submit")
    /\ last.data.status = "correct"
    /\ Len(HiddenItems(threads, last.thread_id)) = 1
    /\ HiddenItems(threads, last.thread_id)[1].content[6] = "correct"

C11_ClearResets ==
    [][(last'.op = "mcq.clear" /\ last'.data # NoData)
          => LET doc == events'[1].update.widget
             IN /\ Len(events') = 1
                /\ events'[1].type = "thread.item.updated"
                /\ events'[1].item_id = last'.sender.id
                /\ DocQuestionId(doc) = last'.payload.questionId
                /\ DocPrompt(doc) = Lookup(load_thread(threads, last'.thread_id, Anonymous),
                                           mcq_questions,
                                           last'.payload.questionId).question.prompt
                /\ DocIndex(doc) = CurrentIndex(last'.payload)
                /\ last'.data.status = "idle"
                /\ last'.data.selected = ""
                /\ last'.data.feedback = EmptyDict
                /\ DocStatus(doc) = "idle"
                /\ DocRadio(doc).defaultValue = ""
                /\ ~DocRadio(doc).disabled
                /\ DocSubmitButton(doc).label = "Submit answer"
                /\ DocNextButton(doc).disabled
                /\ threads' = threads
                /\ next_id' = next_id]_vars

\* a clear triggered from a document locked on the correct answer
C11_Witness ==
    /\ Rendered("mcq.clear")
    /\ DocStatus(last.sender.widget) = "correct"
    /\ DocRadio(last.sender.widget).defaultValue # ""
    /\ DocStatus(LastWidget) = "idle"

\* C12: after a correct submit at position p of n questions the advance
\* button of the re-rendered document is enabled; it reads "Next" with
\* action mcq.next when p < n and "Finish" with action mcq.finish when p = n.
C12_AdvanceButtonAfterCorrect ==
    (Rendered("mcq.submit") /\ last.data.status = "correct") =>
        LET p == CurrentIndex(last.payload)
            n == Lookup(LastThread, mcq_questions, last.payload.questionId).total
            button == DocNextButton(LastWidget)
        IN /\ DocIndex(LastWidget) = p
           /\ DocTotal(LastWidget) = n
           /\ ~button.disabled
           /\ button.onClickAction.payload
                 = [questionId |-> last.payload.questionId, index |-> p]
           /\ p < n => (button.label = "Next"
                        /\ button.onClickAction.type = "mcq.next")
           /\ p = n => (button.label = "Finish"
                        /\ button.onClickAction.type = "mcq.finish")

\* two questions, position 1, the correct answer: "Next", enabled
C12_Witness ==
    /\ Rendered("mcq.submit")
    /\ last.data.status = "correct"
    /\ last.data.index = 1
    /\ last.data.total = 2
    /\ DocNextButton(LastWidget).label = "Next"
    /\ ~DocNextButton(LastWidget).disabled

\* the question list the thread carries, empty when it carries none
ThreadQuiz(thread) ==
    IF HasQuiz(thread) THEN thread.metadata.current_quiz ELSE <<>>

\* the document data of the last action shows question q as one of total
Shows(q, total) ==
    /\ last.data.questionId = q.id
    /\ last.data.prompt = q.prompt
    /\ last.data.options = q.options
    /\ last.data.total = total

\* C13 as stated: a handler that renders on a thread that carries a
\* question list renders from that list; the store is used only when the
\* thread carries no list.
C13_ThreadListOnly ==
    LET quiz == ThreadQuiz(LastThread)
    IN /\ (Rendered("mcq.submit") \/ Rendered("mcq.clear")) =>
             IF HasQuiz(LastThread)
             THEN /\ FindById(quiz, last.payload.questionId) # NoQuestion
                  /\ Shows(FindById(quiz, last.payload.questionId), Len(quiz))
             ELSE Shows(FindById(mcq_questions, last.payload.questionId),
                        Len(mcq_questions))
       /\ Rendered("mcq.next") =>
             \E i \in 1..Len(IF HasQuiz(LastThread) THEN quiz ELSE mcq_questions) :
                 Shows((IF HasQuiz(LastThread) THEN quiz ELSE mcq_questions)[i],
                       Len(IF HasQuiz(LastThread) THEN quiz ELSE mcq_questions))

\* C13: next renders from the thread's list whenever the thread carries one
\* and from the store otherwise; submit and clear render the thread's
\* question with the given id, even when the store holds the same id, and
\* use the store only when the thread's list does not hold the id.
C13_PreferThreadList ==
    LET quiz == ThreadQuiz(LastThread)
    IN /\ (Rendered("mcq.submit") \/ Rendered("mcq.clear")) =>
             IF FindById(quiz, last.payload.questionId) # NoQuestion
             THEN Shows(FindById(quiz, last.payload.questionId), Len(quiz))
             ELSE Shows(FindById(mcq_questions, last.payload.questionId),
                        Len(mcq_questions))
       /\ Rendered("mcq.next") =>
             \E i \in 1..Len(IF HasQuiz(LastThread) THEN quiz ELSE mcq_questions) :
                 Shows((IF HasQuiz(LastThread) THEN quiz ELSE mcq_questions)[i],
                       Len(IF HasQuiz(LastThread) THEN quiz ELSE mcq_questions))

\* a submit for an id that both the thread's list and the store hold
C13_Witness ==
    /\ Rendered("mcq.submit")
    /\ FindById(ThreadQuiz(LastThread), last.payload.questionId) # NoQuestion
    /\ FindById(mcq_questions, last.payload.questionId) # NoQuestion
    /\ last.data.prompt = "Largest planet?"
    /\ last.data.total = Len(ThreadQuiz(LastThread))

\* the last action named a question the thread's list does not hold and
\* the store does
OnlyInStore ==
    /\ WellFormed(last)
    /\ FindById(ThreadQuiz(LastThread), last.payload.questionId) = NoQuestion
    /\ FindById(mcq_questions, last.payload.questionId) # NoQuestion

\* C14: submit, clear and next, given a question id that the thread's list
\* does not hold and the store does, proceed with the store's question.
C14_RetryAgainstStore ==
    /\ (last.op \in { "mcq.submit", "mcq.clear" } /\ OnlyInStore) =>
          /\ last.data # NoData
          /\ Shows(FindById(mcq_questions, last.payload.questionId),
                   Len(mcq_questions))
    /\ (Rendered("mcq.next") /\ OnlyInStore) =>
          \E i \in 1..Len(mcq_questions) :
              Shows(mcq_questions[i], Len(mcq_questions))

\* the handler of the last action left no trace: no event, no exception,
\* no item, no id taken, the store and the displayed documents as before
Silent ==
    /\ events' = <<>>
    /\ last'.data = NoData
    /\ last'.raised = ""
    /\ threads' = threads
    /\ mcq_questions' = mcq_questions
    /\ shown' = shown
    /\ next_id' = next_id

\* C15: submit and clear, given a question id that neither the thread's
\* list nor the store holds, emit nothing, raise nothing and change
\* nothing; submit saves no hidden record.
C15_UnknownIdSubmitClear ==
    [][(/\ last'.op \in { "mcq.submit", "mcq.clear" }
        /\ "questionId" \in DOMAIN last'.payload
        /\ FindById(ThreadQuiz(load_thread(threads, last'.thread_id, Anonymous)),
                    last'.payload.questionId) = NoQuestion
        /\ FindById(mcq_questions, last'.payload.questionId) = NoQuestion)
          => /\ Silent
             /\ HiddenItems(threads', last'.thread_id)
                   = HiddenItems(threads, last'.thread_id)]_vars

\* a submit from the displayed widget, with an answer, for an unknown id
C15_Witness ==
    /\ last.op = "mcq.submit"
    /\ WellFormed(last)
    /\ last.payload.questionId = "zz"
    /\ Get(last.payload, "answer", None) = "a"
    /\ events = <<>>
    /\ HiddenItems(threads, last.thread_id) = <<>>

\* C16: next, given a question id that neither the thread's list nor the
\* store holds, emits no widget update and no message and changes nothing.
C16_UnknownIdNext ==
    [][(/\ last'.op = "mcq.next"
        /\ "questionId" \in DOMAIN last'.payload
        /\ FindById(ThreadQuiz(load_thread(threads, last'.thread_id, Anonymous)),
                    last'.payload.questionId) = NoQuestion
        /\ FindById(mcq_questions, last'.payload.questionId) = NoQuestion)
          => Silent]_vars

\* C17: submit, clear and next, called without a question id (no payload,
\* no questionId key or an empty one) or without a sender widget, emit no
\* event, raise nothing and change nothing.
C17_MissingIdOrSender ==
    [][(/\ last'.op \in { "mcq.submit", "mcq.clear", "mcq.next" }
        /\ \/ Get(last'.payload, "questionId", "") = ""
           \/ last'.sender = NoSender)
          => /\ Silent
             /\ HiddenItems(threads', last'.thread_id)
                   = HiddenItems(threads, last'.thread_id)]_vars

\* a next from the displayed widget whose questionId is the empty string
C17_Witness ==
    /\ last.op = "mcq.next"
    /\ last.sender # NoSender
    /\ "questionId" \in DOMAIN last.payload
    /\ last.payload.questionId = ""
    /\ Get(last.payload, "index", 0) = 1
    /\ events = <<>>

\* C18: an action whose payload lacks "index" (submit, clear, next) or
\* "answer" (submit) is aborted: no widget update, no change of state.
C18_MissingKeyAborts ==
    [][(/\ last'.op \in { "mcq.submit", "mcq.clear", "mcq.next" }
        /\ \/ "index" \notin DOMAIN last'.payload
           \/ last'.op = "mcq.submit" /\ "answer" \notin DOMAIN last'.payload)
          => Silent]_vars

\* C19: for every index of a next payload and every resolved list, next
\* raises nothing and either renders the question at position index + 1,
\* with 1 <= index + 1 <= Len(list), or emits the closing message, or emits
\* nothing; it renders no question from another position.
C19_NextStaysInList ==
    (last.op = "mcq.next" /\ WellFormed(last) /\ "index" \in DOMAIN last.payload)
    => LET position == last.payload.index + 1
       IN /\ last.raised = ""
          /\ IF last.data # NoData
             THEN /\ position \in 1..Len(LastNextList)
                  /\ last.data.index = position
                  /\ Shows(LastNextList[position], Len(LastNextList))
             ELSE \/ events = <<>>
                  \/ /\ Len(events) = 1
                     /\ events[1].type = "thread.item.done"

\* C20: an action whose type is none of mcq.submit, mcq.clear, mcq.next and
\* mcq.finish is ignored, whatever its payload and sender: no event, no
\* exception, no change of state.
C20_UnknownTypeIgnored ==
    [][("payload" \in DOMAIN last'
        /\ last'.op \notin { "mcq.submit", "mcq.clear", "mcq.next", "mcq.finish" })
          => /\ Silent
             /\ HiddenItems(threads', last'.thread_id)
                   = HiddenItems(threads, last'.thread_id)]_vars

\* an unrecognised action that looks like a well-formed next
C20_Witness ==
    /\ last.op = "mcq.skip"
    /\ WellFormed(last)
    /\ last.payload.questionId = "q1"
    /\ Get(last.payload, "index", 0) = 1
    /\ events = <<>>

\* the last operation was a build_mcq_widget call that found no template
\* or failed to build from it
Unavailable ==
    /\ last.op = "build_mcq_widget"
    /\ LET built_widget == IF last.template.built.kind = "none"
                           THEN last.template.rebuilt ELSE last.template.built
       IN \/ last.template.file \in { "missing", "unreadable" }
          \/ built_widget.kind \in { "raises", "none", "other" }
          \/ built_widget.kind = "dict" /\ "type" \notin DOMAIN built_widget.value

\* C21: in every fallback document the advance button reads "Finish" with
\* action mcq.finish exactly when index = total and "Next" with action
\* mcq.next otherwise, and is disabled exactly when status is not "correct".
C21_AdvanceButton ==
    Unavailable =>
        LET button == DocNextButton(last.result)
            at_end == last.data.index = last.data.total
        IN /\ button.label = (IF at_end THEN "Finish" ELSE "Next")
           /\ button.onClickAction.type = (IF at_end THEN "mcq.finish" ELSE "mcq.next")
           /\ button.disabled = (last.data.status # "correct")

\* a document rendered beyond the end of its list, on a correct answer
C21_Witness ==
    /\ Unavailable
    /\ last.data.index > last.data.total
    /\ last.data.status = "correct"
    /\ DocNextButton(last.result).label = "Next"
    /\ ~DocNextButton(last.result).disabled

\* C22: in every fallback document the submit button reads "Try again"
\* exactly when status is "incorrect" and "Submit answer" otherwise; the
\* submit button and the option group are disabled exactly when status is
\* "correct"; the clear button is never disabled; the option group lists
\* the options as supplied, pre-filled with the selected value.
C22_FormControls ==
    Unavailable =>
        LET doc == last.result
        IN /\ DocSubmitButton(doc).label
                 = (IF last.data.status = "incorrect"
                    THEN "Try again" ELSE "Submit answer")
           /\ DocSubmitButton(doc).disabled = (last.data.status = "correct")
           /\ DocRadio(doc).disabled = (last.data.status = "correct")
           /\ ~Get(DocClearButton(doc), "disabled", FALSE)
           /\ DocClearButton(doc).label = "Clear"
           /\ DocRadio(doc).options = last.data.options
           /\ DocRadio(doc).defaultValue = last.data.selected

\* a status that is neither idle, correct nor incorrect, with a selection
C22_Witness ==
    /\ Unavailable
    /\ last.data.status = "review"
    /\ last.data.selected = "a"
    /\ DocSubmitButton(last.result).label = "Submit answer"
    /\ ~DocRadio(last.result).disabled
    /\ DocRadio(last.result).defaultValue = "a"

\* the three actions a document carries
DocCarried(doc) ==
    { DocForm(doc).onSubmitAction,
      DocClearButton(doc).onClickAction,
      DocNextButton(doc).onClickAction }

\* C23: every action a rendered document carries has one of the four types
\* and the payload {questionId, index} of the question and position the
\* document was rendered for; submit and clear render at the payload's
\* index and next at the payload's index plus one.
C23_ActionsCarryPosition ==
    /\ \A i \in 1..Len(shown) :
          /\ DocForm(shown[i].widget).onSubmitAction.type = "mcq.submit"
          /\ DocClearButton(shown[i].widget).onClickAction.type = "mcq.clear"
          /\ DocNextButton(shown[i].widget).onClickAction.type
                \in { "mcq.next", "mcq.finish" }
          /\ \A a \in DocCarried(shown[i].widget) :
                /\ DOMAIN a.payload = { "questionId", "index" }
                /\ a.payload.index = DocIndex(shown[i].widget)
                /\ a.payload.questionId = DocQuestionId(shown[i].widget)
    /\ \A type \in { "mcq.submit", "mcq.clear", "mcq.next" } :
          Rendered(type) =>
             /\ \A a \in DocCarried(LastWidget) :
                   a.payload = [questionId |-> last.data.questionId,
                                index |-> last.data.index]
             /\ DocPrompt(LastWidget) = last.data.prompt
             /\ last.data.index = Get(last.payload, "index", 1)
                                  + (IF type = "mcq.next" THEN 1 ELSE 0)

\* a next whose document carries the position after the payload's
C23_Witness ==
    /\ Rendered("mcq.next")
    /\ Get(last.payload, "index", 0) = 2
    /\ DocNextButton(LastWidget).onClickAction
          = [type |-> "mcq.finish",
             payload |-> [questionId |-> last.data.questionId, index |-> 3]]

\* C24: whenever the template is unavailable or fails to render (no file,
\* load error, build raises, build returns nothing, a document without a
\* type tag or of an unexpected kind), build_mcq_widget returns the fallback
\* structure of its arguments, whatever the template machinery did.
C24_FallbackWhenUnavailable ==
    Unavailable =>
        /\ last.result = _build_fallback_widget(last.data)
        /\ DocCaption(last.result) = <<"Question ", last.data.index, " of ", last.data.total>>
        /\ DocPrompt(last.result) = last.data.prompt

\* the first build returns None and the second a dict without a type tag
C24_Witness ==
    /\ Unavailable
    /\ last.template.file = "loaded"
    /\ last.template.built = ReturnsNone
    /\ last.template.rebuilt.kind = "dict"
    /\ DOMAIN last.template.rebuilt.value = { "children" }
    /\ last.result.type = "Card"
    /\ DocIndex(last.result) = last.data.index

\* the question list stored for the anonymous user's thread t, empty when
\* the thread does not exist or carries none
StoredQuiz(T, t) ==
    IF HasThread(T, t, Anonymous) THEN ThreadQuiz(load_thread(T, t, Anonymous)) ELSE <<>>

\* C25: a question set lives until it is replaced or its thread is deleted:
\* after create_questions the thread's stored list is exactly the new set,
\* after delete_thread the thread can no longer be loaded, and a thread
\* that comes back without a save carries no question list.
C25_SetReplacedOrDeleted ==
    [][ /\ last'.op = "create_questions" =>
              /\ HasThread(threads', ctx'.thread.id, Anonymous)
              /\ HasQuiz(load_thread(threads', ctx'.thread.id, Anonymous))
              /\ StoredQuiz(threads', ctx'.thread.id) = FormatQuestions(last'.questions)
        /\ last'.op = "delete_thread" =>
              /\ ~HasThread(threads', last'.thread_id, Anonymous)
              /\ StoredQuiz(threads', last'.thread_id) = <<>>
        /\ \A t \in ThreadIds :
              ~HasThread(threads, t, Anonymous) /\ HasThread(threads', t, Anonymous)
                  => ~HasQuiz(load_thread(threads', t, Anonymous)) ]_vars

\* a set stored while a document of an earlier, different set is displayed
C25_Witness ==
    /\ last.op = "create_questions"
    /\ last.questions = <<GenC>>
    /\ shown # <<>>
    /\ sources[1] = FormatQuestions(<<GenA, GenB, GenC>>)
    /\ StoredQuiz(threads, "t1") = FormatQuestions(<<GenC>>)

\* what the store holds for a user's thread id: the record of its
\* metadata and items, NoThread when there is none
NoThread == [missing |-> TRUE]

Slot(T, user_id, thread_id) ==
    IF user_id \in DOMAIN T /\ thread_id \in DOMAIN T[user_id]
    THEN T[user_id][thread_id] ELSE NoThread

StoreUsers == { _get_user_id(c) : c \in StoreContexts }

\* a writing store operation or a quiz action for thread id t of context c
WriteFor(c, t) ==
    \/ \E metadata \in StoreMetadatas : SaveThread(c, t, metadata)
    \/ DeleteThread(c, t)
    \/ \E id \in ItemIds, text \in ItemTexts : AddThreadItem(c, t, StoreItem(t, id, text))
    \/ \E id \in ItemIds, text \in ItemTexts : SaveItem(c, t, StoreItem(t, id, text))
    \/ \E id \in ItemIds : DeleteThreadItem(c, t, id)
    \/ QuizSubmit(c, t)

\* C26: a store operation (save_thread, delete_thread, add_thread_item,
\* save_item, delete_thread_item) or a quiz action for one user's thread id
\* leaves the metadata, the question list and the items of every other
\* thread id, and of the same id under any other user, as they were.
C26_ThreadsIsolated ==
    [][ \A c \in StoreContexts, t \in StoreThreadIds :
          WriteFor(c, t) =>
              \A user_id \in StoreUsers, thread_id \in StoreThreadIds :
                  <<user_id, thread_id>> # <<_get_user_id(c), t>>
                      => Slot(threads', user_id, thread_id)
                            = Slot(threads, user_id, thread_id) ]_vars

\* a submit recorded in the anonymous user's t1 while user u1 holds a
\* thread of the same id with an item of its own
C26_Witness ==
    /\ last.op = "mcq.submit"
    /\ last.thread_id = "t1"
    /\ Slot(threads, "anonymous", "t1") # NoThread
    /\ Len(Slot(threads, "anonymous", "t1").items) = 1
    /\ Slot(threads, "u1", "t1") # NoThread
    /\ Len(Slot(threads, "u1", "t1").items) = 1
    /\ Slot(threads, "u1", "t1").items[1].id = "i1"

\* C27: the ids of the questions are pairwise distinct in every question
\* set stored by create_questions, so that the id a document carries names
\* the question at the document's position.
C27_StoredIdsDistinct ==
    \A t \in ThreadIds :
        LET quiz == StoredQuiz(threads, t)
        IN \A i, j \in 1..Len(quiz) : quiz[i].id = quiz[j].id => i = j

\* C28: for every limit N >= 0 get_questions returns the first
\* min(N, count) questions of the store, in the store's order.
C28_GetQuestionsFirstN ==
    last.op = "get_questions" =>
        LET count == Len(mcq_questions)
            n == IF last.limit < count THEN last.limit ELSE count
        IN /\ last.result.questions = SubSeq(mcq_questions, 1, n)
           /\ last.result.total = n

\* the items of a run of pages, in the order they were returned
RECURSIVE Returned(_)
Returned(pages) ==
    IF pages = <<>> THEN <<>>
    ELSE Returned(SubSeq(pages, 1, Len(pages) - 1)) \o pages[Len(pages)].data

\* a comes no later than b in the order asked for
InOrder(a, b, order) ==
    IF order = "desc" THEN a.created_at >= b.created_at
    ELSE a.created_at <= b.created_at

ItemOps ==
    { "load_thread_items", "add_thread_item", "save_item", "load_item",
      "delete_thread_item" }

\* the step is an operation of kind op on thread id t of context c
StepOn(op, c, t) ==
    /\ last'.op = op
    /\ Get(last', "thread_id", None) = t
    /\ Get(last', "user_id", None) = _get_user_id(c)

\* the ids load_threads lists for a context, all on one page
Listed(T, c) ==
    LET page == load_threads(T, Cardinality(StoreThreadIds), None, "asc", c)
    IN { page.data[i].id : i \in 1..Len(page.data) }

\* C30: an item operation (load_thread_items, add_thread_item, save_item,
\* load_item, delete_thread_item) on a thread id that is unknown or was
\* deleted creates an empty thread record with fresh metadata, so that
\* load_thread then succeeds with no question list and load_threads lists
\* the id; a deleted thread is not found until such an operation or a save.
C30_ItemOpsCreateThread ==
    [][ \A c \in StoreContexts, t \in StoreThreadIds :
          /\ (\E op \in ItemOps : StepOn(op, c, t)) =>
                /\ HasThread(threads', t, c)
                /\ t \in Listed(threads', c)
                /\ ~HasThread(threads, t, c) =>
                      /\ load_thread(threads', t, c) = ThreadMetadata(t, next_id, EmptyDict)
                      /\ ~HasQuiz(load_thread(threads', t, c))
                      /\ Len(_items(threads', t, c)) <= 1
          /\ StepOn("delete_thread", c, t) =>
                /\ ~HasThread(threads', t, c)
                /\ t \notin Listed(threads', c)
          /\ ~HasThread(threads, t, c) /\ HasThread(threads', t, c) =>
                \E op \in ItemOps \cup { "save_thread" } : StepOn(op, c, t)
          /\ HasThread(threads, t, c) /\ ~HasThread(threads', t, c) =>
                StepOn("delete_thread", c, t) ]_vars

\* load_item of an id the store did not hold at the time: the item is not
\* found, and the thread is there afterwards, created at the time of the call
C30_Witness ==
    /\ last.op = "load_item"
    /\ ~last.existed
    /\ last.result = NoItem
    /\ last.thread_id = "t2"
    /\ Slot(threads, last.user_id, "t2")
          = _ThreadState(ThreadMetadata("t2", 2, EmptyDict), <<>>)

====
